---- MODULE Spec2Model ----
(***************************************************************************)
(* VeraSeal seal pipeline: canonical JSON + SHA-256 (app/schemas),         *)
(* the invariant-checked engine (app/core, app/invariants), the            *)
(* append-only artifact store (app/audit) and replay (app/replay).         *)
(*                                                                         *)
(* Representation.                                                         *)
(*  - A Python str is a sequence of chunks: [lit |-> "text"] for literal   *)
(*    characters and [pre |-> bytes, n |-> k] for the first k characters   *)
(*    of the hex SHA-256 digest of `bytes` (a perfect, collision-free      *)
(*    hash: two digests or digest prefixes are equal exactly when their    *)
(*    preimages are).  Adjacent literal chunks are always merged.          *)
(*  - A JSON value is a tagged record [t |-> tag, v |-> ...]; a dict is    *)
(*    the sequence of its <<key, value>> pairs in insertion order.         *)
(*  - bytes of a JSON document are the sequence of its tokens.             *)
(***************************************************************************)
EXTENDS Integers, Sequences, FiniteSets, TLC

(* ------------------------------ bounds --------------------------------- *)
\* number of I/O errors the environment may inject into _atomic_write
MaxFaults == 1
\* number of ticks of the system clock
MaxClock == 1
\* number of requests the serial worker handles one after the other
MaxCalls == 2
\* number of tamperings of a committed artifact
MaxTampers == 1

(* --------------------------- Python str -------------------------------- *)
Lit(s) == IF s = "" THEN <<>> ELSE <<[lit |-> s]>>

IsLit(c) == "lit" \in DOMAIN c

ChunkLen(c) == IF IsLit(c) THEN Len(c.lit) ELSE c.n

\* a + b on str
Cat(a, b) ==
    IF a = <<>> THEN b
    ELSE IF b = <<>> THEN a
    ELSE IF IsLit(a[Len(a)]) /\ IsLit(b[1])
         THEN SubSeq(a, 1, Len(a) - 1)
                \o <<[lit |-> a[Len(a)].lit \o b[1].lit]>>
                \o Tail(b)
         ELSE a \o b

RECURSIVE TextLen(_)
\* len(s)
TextLen(s) == IF s = <<>> THEN 0 ELSE ChunkLen(Head(s)) + TextLen(Tail(s))

RECURSIVE Prefix(_, _)
\* s[:k]
Prefix(s, k) ==
    IF k <= 0 \/ s = <<>> THEN <<>>
    ELSE LET c == Head(s) IN
         IF ChunkLen(c) >= k
         THEN <<IF IsLit(c) THEN [lit |-> SubSeq(c.lit, 1, k)]
                            ELSE [pre |-> c.pre, n |-> k]>>
         ELSE Cat(<<c>>, Prefix(Tail(s), k - ChunkLen(c)))

\* the characters of "0123456789abcdef"
HexChars == {"0", "1", "2", "3", "4", "5", "6", "7", "8", "9", "a", "b", "c", "d", "e", "f"}

\* all(c in "0123456789abcdef" for c in v)
AllHex(s) ==
    \A i \in 1..Len(s) :
        IsLit(s[i]) => \A j \in 1..Len(s[i].lit) :
                           SubSeq(s[i].lit, j, j) \in HexChars

(* --------------------------- JSON values ------------------------------- *)
VStr(s)   == [t |-> "str",  v |-> s]
VBool(b)  == [t |-> "bool", v |-> b]
VInt(n)   == [t |-> "int",  v |-> n]
VNull     == [t |-> "null", v |-> <<>>]
VList(xs) == [t |-> "list", v |-> xs]
VDict(ps) == [t |-> "dict", v |-> ps]

S(x) == VStr(Lit(x))

\* a == b on two JSON-typed Python values
SameValue(a, b) == a.t = b.t /\ a.v = b.v

\* x is None
IsNone(x) == x.t = "null"

Keys(d) == {d.v[i][1] : i \in 1..Len(d.v)}

HasKey(d, k) == k \in Keys(d)

\* d[k]
Item(d, k) == d.v[CHOOSE i \in 1..Len(d.v) : d.v[i][1] = k][2]

\* d.get(k): None for an absent key, and None also for a stored null
Get(d, k) == IF HasKey(d, k) THEN Item(d, k) ELSE VNull

\* d[k] = x (insertion order kept; a new key goes last)
DictSet(d, k, x) ==
    IF HasKey(d, k)
    THEN VDict([i \in 1..Len(d.v) |->
                   IF d.v[i][1] = k THEN <<k, x>> ELSE d.v[i]])
    ELSE VDict(Append(d.v, <<k, x>>))

RECURSIVE PyRepr(_)
RECURSIVE PyReprItems(_)
RECURSIVE PyReprPairs(_)
\* repr(x) for JSON-typed Python values
PyRepr(x) ==
    CASE x.t = "str"  -> Cat(Lit("'"), Cat(x.v, Lit("'")))
      [] x.t = "bool" -> Lit(IF x.v THEN "True" ELSE "False")
      [] x.t = "int"  -> Lit(ToString(x.v))
      [] x.t = "null" -> Lit("None")
      [] x.t = "list" -> Cat(Lit("["), Cat(PyReprItems(x.v), Lit("]")))
      [] x.t = "dict" -> Cat(Lit("{"), Cat(PyReprPairs(x.v), Lit("}")))

PyReprItems(xs) ==
    IF xs = <<>> THEN <<>>
    ELSE IF Len(xs) = 1 THEN PyRepr(xs[1])
    ELSE Cat(PyRepr(xs[1]), Cat(Lit(", "), PyReprItems(Tail(xs))))

PyReprPairs(ps) ==
    IF ps = <<>> THEN <<>>
    ELSE LET one == Cat(PyRepr(S(ps[1][1])), Cat(Lit(": "), PyRepr(ps[1][2])))
         IN IF Len(ps) = 1 THEN one
            ELSE Cat(one, Cat(Lit(", "), PyReprPairs(Tail(ps))))

\* str(x), as an f-string formats it
PyStr(x) == IF x.t = "str" THEN x.v ELSE PyRepr(x)

(* ------------------------------ Codec ---------------------------------- *)
\* the rank of each character used in a key or a file name, in code-point order
CharCodes ==
    LET Alphabet == ".0123456789ABCDEFGHIJKLMNOPQRSTUVWXYZ_abcdefghijklmnopqrstuvwxyz"
    IN [ch \in {SubSeq(Alphabet, i, i) : i \in 1..Len(Alphabet)} |->
           CHOOSE i \in 1..Len(Alphabet) : SubSeq(Alphabet, i, i) = ch]

RECURSIVE StrLess(_, _)
\* a < b on str (code-point order)
StrLess(a, b) ==
    IF b = "" THEN FALSE
    ELSE IF a = "" THEN TRUE
    ELSE LET ca == CharCodes[SubSeq(a, 1, 1)]
             cb == CharCodes[SubSeq(b, 1, 1)]
         IN IF ca # cb THEN ca < cb
            ELSE StrLess(SubSeq(a, 2, Len(a)), SubSeq(b, 2, Len(b)))

RECURSIVE InsertPair(_, _)
InsertPair(p, sorted) ==
    IF sorted = <<>> THEN <<p>>
    ELSE IF StrLess(p[1], Head(sorted)[1]) THEN <<p>> \o sorted
    ELSE <<Head(sorted)>> \o InsertPair(p, Tail(sorted))

RECURSIVE SortPairs(_)
\* sort_keys=True
SortPairs(ps) == IF ps = <<>> THEN <<>> ELSE InsertPair(Head(ps), SortPairs(Tail(ps)))

P(x) == [p |-> x]

RECURSIVE Render(_, _)
RECURSIVE RenderItems(_, _)
RECURSIVE RenderPairs(_, _)
\* json.dumps(obj, sort_keys=sort), as the sequence of its tokens
Render(x, sort) ==
    CASE x.t = "str"  -> <<[s |-> x.v]>>
      [] x.t = "bool" -> <<[k |-> IF x.v THEN "true" ELSE "false"]>>
      [] x.t = "int"  -> <<[i |-> x.v]>>
      [] x.t = "null" -> <<[k |-> "null"]>>
      [] x.t = "list" -> <<P("[")>> \o RenderItems(x.v, sort) \o <<P("]")>>
      [] x.t = "dict" -> <<P("{")>>
                           \o RenderPairs(IF sort THEN SortPairs(x.v) ELSE x.v, sort)
                           \o <<P("}")>>

RenderItems(xs, sort) ==
    IF xs = <<>> THEN <<>>
    ELSE IF Len(xs) = 1 THEN Render(xs[1], sort)
    ELSE Render(xs[1], sort) \o <<P(",")>> \o RenderItems(Tail(xs), sort)

RenderPairs(ps, sort) ==
    IF ps = <<>> THEN <<>>
    ELSE LET one == <<[s |-> Lit(ps[1][1])], P(":")>> \o Render(ps[1][2], sort)
         IN IF Len(ps) = 1 THEN one
            ELSE one \o <<P(",")>> \o RenderPairs(Tail(ps), sort)

\* the rendering with the keys left in insertion order
canonicalize_json_unsorted(obj) == Render(obj, FALSE)

canonicalize_json(obj) == Render(obj, TRUE)

\* json.dump(obj, f) with default arguments: insertion order of the keys
json_dump(obj) == Render(obj, FALSE)

compute_sha256(data) == <<[pre |-> data, n |-> 64]>>

TokenLen(tk) ==
    IF "s" \in DOMAIN tk THEN TextLen(tk.s) + 2
    ELSE IF "k" \in DOMAIN tk THEN Len(tk.k)
    ELSE IF "i" \in DOMAIN tk THEN Len(ToString(tk.i))
    ELSE 1

RECURSIVE SumTokenLen(_, _, _)
SumTokenLen(data, lo, hi) ==
    IF lo > hi THEN 0
    ELSE IF lo = hi THEN TokenLen(data[lo])
    ELSE LET mid == (lo + hi) \div 2
         IN SumTokenLen(data, lo, mid) + SumTokenLen(data, mid + 1, hi)

\* len(data)
ByteLen(data) == SumTokenLen(data, 1, Len(data))

RECURSIVE ParseValue(_, _)
RECURSIVE ParseItems(_, _, _)
RECURSIVE ParsePairs(_, _, _)
\* the JSON value that starts at token i, and the index after it
ParseValue(toks, i) ==
    LET tk == toks[i] IN
    IF "s" \in DOMAIN tk THEN [v |-> VStr(tk.s), j |-> i + 1]
    ELSE IF "k" \in DOMAIN tk
         THEN [v |-> IF tk.k = "null" THEN VNull ELSE VBool(tk.k = "true"), j |-> i + 1]
    ELSE IF "i" \in DOMAIN tk THEN [v |-> VInt(tk.i), j |-> i + 1]
    ELSE IF tk = P("[")
         THEN IF toks[i + 1] = P("]") THEN [v |-> VList(<<>>), j |-> i + 2]
              ELSE ParseItems(toks, i + 1, <<>>)
    ELSE IF toks[i + 1] = P("}") THEN [v |-> VDict(<<>>), j |-> i + 2]
         ELSE ParsePairs(toks, i + 1, VDict(<<>>))

ParseItems(toks, i, acc) ==
    LET r == ParseValue(toks, i) IN
    IF toks[r.j] = P(",") THEN ParseItems(toks, r.j + 1, Append(acc, r.v))
    ELSE [v |-> VList(Append(acc, r.v)), j |-> r.j + 1]

ParsePairs(toks, i, acc) ==
    LET key == IF toks[i].s = <<>> THEN "" ELSE toks[i].s[1].lit
        r   == ParseValue(toks, i + 2)
    IN IF toks[r.j] = P(",") THEN ParsePairs(toks, r.j + 1, DictSet(acc, key, r.v))
       ELSE [v |-> DictSet(acc, key, r.v), j |-> r.j + 1]

\* json.loads(data.decode("utf-8"))
json_loads(data) == ParseValue(data, 1).v

(* ------------------------------ Schema --------------------------------- *)
\* \d
DigitChars == {"0", "1", "2", "3", "4", "5", "6", "7", "8", "9"}

AllDigits(x) == \A i \in 1..Len(x) : SubSeq(x, i, i) \in DigitChars

RECURSIVE DropDigits(_)
DropDigits(x) ==
    IF x # "" /\ SubSeq(x, 1, 1) \in DigitChars THEN DropDigits(SubSeq(x, 2, Len(x)))
    ELSE x

\* (Z|[+-]\d{2}:\d{2})$   ($ also matches before one trailing newline)
MatchesZone(x) ==
    LET body == IF x # "" /\ SubSeq(x, Len(x), Len(x)) = "\n"
                THEN SubSeq(x, 1, Len(x) - 1) ELSE x
    IN \/ body = "Z"
       \/ /\ Len(body) = 6
          /\ SubSeq(body, 1, 1) \in {"+", "-"}
          /\ AllDigits(SubSeq(body, 2, 3))
          /\ SubSeq(body, 4, 4) = ":"
          /\ AllDigits(SubSeq(body, 5, 6))

\* re.match(r"^\d{4}-\d{2}-\d{2}T\d{2}:\d{2}:\d{2}(\.\d+)?(Z|[+-]\d{2}:\d{2})$", v)
MatchesTimePattern(x) ==
    /\ Len(x) >= 20
    /\ AllDigits(SubSeq(x, 1, 4))   /\ SubSeq(x, 5, 5) = "-"
    /\ AllDigits(SubSeq(x, 6, 7))   /\ SubSeq(x, 8, 8) = "-"
    /\ AllDigits(SubSeq(x, 9, 10))  /\ SubSeq(x, 11, 11) = "T"
    /\ AllDigits(SubSeq(x, 12, 13)) /\ SubSeq(x, 14, 14) = ":"
    /\ AllDigits(SubSeq(x, 15, 16)) /\ SubSeq(x, 17, 17) = ":"
    /\ AllDigits(SubSeq(x, 18, 19))
    /\ LET rest == SubSeq(x, 20, Len(x)) IN
       \/ MatchesZone(rest)
       \/ /\ Len(rest) >= 2
          /\ SubSeq(rest, 1, 1) = "."
          /\ SubSeq(rest, 2, 2) \in DigitChars
          /\ MatchesZone(DropDigits(SubSeq(rest, 2, Len(rest))))

validate_injected_time(v) == Len(v) = 1 /\ IsLit(v[1]) /\ MatchesTimePattern(v[1].lit)

validate_version(v) == v = Lit("v1")

\* the subject validator without the upper bound on the length
validate_subject_unbounded(v) == v # <<>>

validate_subject(v) == v # <<>> /\ TextLen(v) <= 128

validate_ruleset(v) == v # <<>> /\ TextLen(v) <= 128

RECURSIVE _validate_json_only_types(_)
_validate_json_only_types(value) ==
    CASE value.t \in {"null", "bool", "int", "str"} -> TRUE
      [] value.t = "dict" ->
            \A i \in 1..Len(value.v) : _validate_json_only_types(value.v[i][2])
      [] value.t = "list" ->
            \A i \in 1..Len(value.v) : _validate_json_only_types(value.v[i])
      [] OTHER -> FALSE

\* EvaluationRequest(**d): the typed request, or the validation failure
EvaluationRequest(d) ==
    IF /\ d.t = "dict"
       /\ Keys(d) = {"version", "subject", "ruleset", "payload", "injected_time_utc"}
       /\ \A k \in {"version", "subject", "ruleset", "injected_time_utc"} :
              Item(d, k).t = "str"
       /\ Item(d, "payload").t = "dict"
       /\ validate_version(Item(d, "version").v)
       /\ validate_subject(Item(d, "subject").v)
       /\ validate_ruleset(Item(d, "ruleset").v)
       /\ validate_injected_time(Item(d, "injected_time_utc").v)
       /\ _validate_json_only_types(Item(d, "payload"))
    THEN [ok |-> TRUE,
          request |-> [version |-> Item(d, "version").v,
                       subject |-> Item(d, "subject").v,
                       ruleset |-> Item(d, "ruleset").v,
                       payload |-> Item(d, "payload"),
                       injected_time_utc |-> Item(d, "injected_time_utc").v]]
    ELSE [ok |-> FALSE, request |-> <<>>]

\* request.model_dump()
RequestDump(request) ==
    VDict(<<<<"version", VStr(request.version)>>,
            <<"subject", VStr(request.subject)>>,
            <<"ruleset", VStr(request.ruleset)>>,
            <<"payload", request.payload>>,
            <<"injected_time_utc", VStr(request.injected_time_utc)>>>>)

TraceStep(step_name, status, details) ==
    [step_name |-> step_name, status |-> status, details |-> details]

\* step.model_dump()
TraceStepDump(step) ==
    VDict(<<<<"step_name", VStr(step.step_name)>>,
            <<"status", VStr(step.status)>>,
            <<"details", VStr(step.details)>>>>)

TraceDump(trace) == VList([i \in 1..Len(trace) |-> TraceStepDump(trace[i])])

validate_decision(v) == v \in {Lit("ACCEPT"), Lit("REJECT")}

validate_reasons(v) == v # <<>>

validate_sha256(v) == TextLen(v) = 64 /\ AllHex(v)

validate_manifest_sha256(v) == v = <<>> \/ (TextLen(v) = 64 /\ AllHex(v))

\* EvaluationResult(...): the fields accepted by the validators
EvaluationResultValid(r) ==
    /\ validate_decision(r.decision)
    /\ validate_reasons(r.reasons)
    /\ validate_sha256(r.input_sha256)
    /\ validate_sha256(r.output_sha256)
    /\ validate_manifest_sha256(r.manifest_sha256)

(* ---------------------------- Invariants ------------------------------- *)
PassAll(names) == [i \in 1..Len(names) |-> <<names[i], "PASS">>]

check_pre_invariants(request) ==
    IF request.version # Lit("v1")
    THEN [raised |-> TRUE, message |-> "PRE: version must be 'v1'", checks |-> <<>>]
    ELSE IF request.subject = <<>> \/ TextLen(request.subject) > 128
    THEN [raised |-> TRUE, message |-> "PRE: subject invalid", checks |-> <<>>]
    ELSE IF request.ruleset = <<>> \/ TextLen(request.ruleset) > 128
    THEN [raised |-> TRUE, message |-> "PRE: ruleset invalid", checks |-> <<>>]
    ELSE IF request.injected_time_utc = <<>>
    THEN [raised |-> TRUE, message |-> "PRE: injected_time_utc required", checks |-> <<>>]
    ELSE [raised |-> FALSE, message |-> "",
          checks |-> PassAll(<<"version_check", "subject_check", "ruleset_check",
                               "injected_time_check", "payload_type_check",
                               "no_extra_fields_check">>)]

check_during_invariants == PassAll(<<"no_system_clock_read", "artifact_dir_only">>)

check_post_invariants(result, input_sha256) ==
    IF TextLen(result.input_sha256) # 64
    THEN [raised |-> TRUE, message |-> "POST: input_sha256 must be 64 hex chars", checks |-> <<>>]
    ELSE IF TextLen(result.output_sha256) # 64
    THEN [raised |-> TRUE, message |-> "POST: output_sha256 must be 64 hex chars", checks |-> <<>>]
    ELSE IF result.evaluation_id # Prefix(input_sha256, 16)
    THEN [raised |-> TRUE,
          message |-> "POST: evaluation_id must be first 16 chars of input_sha256",
          checks |-> <<>>]
    ELSE IF result.reasons = <<>>
    THEN [raised |-> TRUE, message |-> "POST: reasons must be non-empty", checks |-> <<>>]
    ELSE IF result.decision \notin {Lit("ACCEPT"), Lit("REJECT")}
    THEN [raised |-> TRUE, message |-> "POST: decision must be ACCEPT or REJECT", checks |-> <<>>]
    ELSE [raised |-> FALSE, message |-> "",
          checks |-> PassAll(<<"input_hash_format", "output_hash_format",
                               "evaluation_id_derivation", "reasons_non_empty",
                               "decision_valid", "trace_deterministic",
                               "canonicalization_stable">>)]

(* ------------------------------ Engine --------------------------------- *)
VARIABLES
    clock,      \* the system clock of the host (the engine must not read it)
    eng,        \* eng[t]: the local variables of thread t inside run_evaluation
    evalLog     \* every (request, thread, returned value) run_evaluation has produced

AppendChecks(trace_steps, prefix, label, checks) ==
    trace_steps \o [i \in 1..Len(checks) |->
        TraceStep(Lit(prefix \o checks[i][1]), Lit(checks[i][2]),
                  Lit(label \o " invariant check: " \o checks[i][1]))]

\* the local variables on entry (trace_steps = [])
EngineStart(request) ==
    [request |-> request, trace_steps |-> <<>>, input_sha256 |-> <<>>,
     evaluation_id |-> <<>>, decision |-> <<>>, reasons |-> <<>>,
     output_sha256 |-> <<>>, raised |-> ""]

\* the rule with the reason of the missing-key branch left out
_evaluate_mvp_rule_silent(payload) ==
    IF SameValue(Get(payload, "assert"), VBool(TRUE))
    THEN [decision |-> Lit("ACCEPT"),
          reasons |-> <<Lit("MVP rule: payload.assert == true")>>]
    ELSE IF ~HasKey(payload, "assert")
    THEN [decision |-> Lit("REJECT"), reasons |-> <<>>]
    ELSE [decision |-> Lit("REJECT"),
          reasons |-> <<Cat(Lit("MVP rule: payload.assert == "),
                            Cat(PyStr(Get(payload, "assert")), Lit(" (not true)")))>>]

_evaluate_mvp_rule(payload) ==
    IF SameValue(Get(payload, "assert"), VBool(TRUE))
    THEN [decision |-> Lit("ACCEPT"),
          reasons |-> <<Lit("MVP rule: payload.assert == true")>>]
    ELSE IF ~HasKey(payload, "assert")
    THEN [decision |-> Lit("REJECT"),
          reasons |-> <<Lit("MVP rule: payload.assert key not present")>>]
    ELSE [decision |-> Lit("REJECT"),
          reasons |-> <<Cat(Lit("MVP rule: payload.assert == "),
                            Cat(PyStr(Get(payload, "assert")), Lit(" (not true)")))>>]

StepPre(e) ==
    LET pre_checks == check_pre_invariants(e.request) IN
    IF pre_checks.raised THEN [e EXCEPT !.raised = "InvariantViolation"]
    ELSE [e EXCEPT !.trace_steps = AppendChecks(@, "pre_", "PRE", pre_checks.checks)]

StepCanonicalizeUnsorted(e) ==
    LET input_sha256 == compute_sha256(json_dump(RequestDump(e.request))) IN
    [e EXCEPT !.input_sha256 = input_sha256,
              !.trace_steps = Append(@, TraceStep(Lit("canonicalize_input"), Lit("PASS"),
                                  Cat(Lit("Input canonicalized, sha256="), input_sha256)))]

StepCanonicalize(e) ==
    LET input_sha256 == compute_sha256(canonicalize_json(RequestDump(e.request))) IN
    [e EXCEPT !.input_sha256 = input_sha256,
              !.trace_steps = Append(@, TraceStep(Lit("canonicalize_input"), Lit("PASS"),
                                  Cat(Lit("Input canonicalized, sha256="), input_sha256)))]

StepDerive(e) ==
    LET evaluation_id == Prefix(e.input_sha256, 16) IN
    [e EXCEPT !.evaluation_id = evaluation_id,
              !.trace_steps = Append(@, TraceStep(Lit("derive_evaluation_id"), Lit("PASS"),
                                  Cat(Lit("evaluation_id="), evaluation_id)))]

StepDuring(e) ==
    [e EXCEPT !.trace_steps = AppendChecks(@, "during_", "DURING", check_during_invariants)]

StepRule(e) ==
    LET r == _evaluate_mvp_rule(e.request.payload) IN
    [e EXCEPT !.decision = r.decision,
              !.reasons = r.reasons,
              !.trace_steps = Append(@, TraceStep(Lit("mvp_rule_evaluation"), Lit("PASS"),
                  Cat(Lit("MVP rule applied: decision="),
                      Cat(r.decision, Cat(Lit(", reasons="), PyRepr(VList([i \in 1..Len(r.reasons) |-> VStr(r.reasons[i])])))))))]

OutputForHashClock(e) ==
    VDict(<<<<"evaluation_id", VStr(e.evaluation_id)>>,
            <<"input_sha256", VStr(e.input_sha256)>>,
            <<"decision", VStr(e.decision)>>,
            <<"reasons", VList([i \in 1..Len(e.reasons) |-> VStr(e.reasons[i])])>>,
            <<"trace", TraceDump(e.trace_steps)>>,
            <<"created_time_utc", VStr(Lit(ToString(clock)))>>>>)

OutputForHash(e) ==
    VDict(<<<<"evaluation_id", VStr(e.evaluation_id)>>,
            <<"input_sha256", VStr(e.input_sha256)>>,
            <<"decision", VStr(e.decision)>>,
            <<"reasons", VList([i \in 1..Len(e.reasons) |-> VStr(e.reasons[i])])>>,
            <<"trace", TraceDump(e.trace_steps)>>,
            <<"created_time_utc", VStr(e.request.injected_time_utc)>>>>)

\* EvaluationResult(evaluation_id=..., ..., manifest_sha256="", trace=trace_steps, ...)
ResultOf(e) ==
    [evaluation_id |-> e.evaluation_id, input_sha256 |-> e.input_sha256,
     output_sha256 |-> e.output_sha256, manifest_sha256 |-> <<>>,
     decision |-> e.decision, reasons |-> e.reasons, trace |-> e.trace_steps,
     created_time_utc |-> e.request.injected_time_utc]

StepHash(e) ==
    LET output_sha256 == compute_sha256(canonicalize_json(OutputForHash(e)))
        e2 == [e EXCEPT !.output_sha256 = output_sha256,
                        !.trace_steps = Append(@, TraceStep(Lit("compute_output_hash"),
                            Lit("PASS"), Cat(Lit("output_sha256="), output_sha256)))]
    IN IF EvaluationResultValid(ResultOf(e2)) THEN e2
       ELSE [e2 EXCEPT !.raised = "ValidationError"]

StepPost(e) ==
    LET post_checks == check_post_invariants(ResultOf(e), e.input_sha256) IN
    IF post_checks.raised THEN [e EXCEPT !.raised = "InvariantViolation"]
    ELSE LET e2 == [e EXCEPT !.trace_steps =
                        AppendChecks(@, "post_", "POST", post_checks.checks)]
         IN IF EvaluationResultValid(ResultOf(e2)) THEN e2
            ELSE [e2 EXCEPT !.raised = "ValidationError"]

\* what the call gives back: (final_result, input_sha256), or the exception
Returned(e) ==
    IF e.raised # "" THEN [raised |-> e.raised, result |-> <<>>, input_sha256 |-> <<>>]
    ELSE [raised |-> "", result |-> ResultOf(e), input_sha256 |-> e.input_sha256]

EnginePhases == <<"pre", "canonicalize", "derive", "during", "rule", "hash", "post">>

Phase(name, e) ==
    CASE name = "pre"          -> StepPre(e)
      [] name = "canonicalize" -> StepCanonicalize(e)
      [] name = "derive"       -> StepDerive(e)
      [] name = "during"       -> StepDuring(e)
      [] name = "rule"         -> StepRule(e)
      [] name = "hash"         -> StepHash(e)
      [] name = "post"         -> StepPost(e)

RECURSIVE RunFrom(_, _)
RunFrom(i, e) ==
    IF i > Len(EnginePhases) \/ e.raised # "" THEN e
    ELSE RunFrom(i + 1, Phase(EnginePhases[i], e))

\* run_evaluation(request), run to completion
run_evaluation(request) == Returned(RunFrom(1, EngineStart(request)))

(* ------------------------------- Policy -------------------------------- *)
\* s.strip(), for the whitespace characters space, tab, newline, return, form feed
strip(s) ==
    LET Whitespace == {" ", "\t", "\n", "\r", "\f"}
        Kept(x) == {j \in 1..Len(x) : SubSeq(x, j, j) \notin Whitespace}
        First(x) == CHOOSE j \in Kept(x) : \A k \in Kept(x) : j <= k
        Last(x) == CHOOSE j \in Kept(x) : \A k \in Kept(x) : j >= k
        LStrip(c) == IF ~IsLit(c) THEN <<c>>
                     ELSE IF Kept(c.lit) = {} THEN <<>>
                     ELSE Lit(SubSeq(c.lit, First(c.lit), Len(c.lit)))
        RStrip(c) == IF ~IsLit(c) THEN <<c>>
                     ELSE IF Kept(c.lit) = {} THEN <<>>
                     ELSE Lit(SubSeq(c.lit, 1, Last(c.lit)))
    IN IF s = <<>> THEN <<>>
       ELSE IF Len(s) = 1
            THEN LET left == LStrip(s[1])
                 IN IF left = <<>> THEN <<>> ELSE RStrip(left[1])
            ELSE LStrip(s[1]) \o SubSeq(s, 2, Len(s) - 1) \o RStrip(s[Len(s)])

\* load_policy(policy_id): the legacy id gives the built-in placeholder; any other id
\* gives the content of a policy file (evaluation_policy_v1.json, which carries no
\* "legacy" key)
load_policy(policy_id) ==
    IF policy_id = "mvp-placeholder-v0"
    THEN VDict(<<<<"policy_id", S("mvp-placeholder-v0")>>,
                 <<"policy_version", S("0.0.0")>>,
                 <<"description", S("Legacy MVP placeholder rule (assert == true)")>>,
                 <<"legacy", VBool(TRUE)>>>>)
    ELSE VDict(<<<<"policy_id", S("evaluation-policy-v1")>>>>)

get_default_policy_id == "evaluation-policy-v1"

\* an entry that records PASS whatever the outcome of the rule
RuleEntryPassing(rule_id, rule_name, status, detail) ==
    [rule_id |-> Lit(rule_id), rule_name |-> Lit(rule_name),
     status |-> Lit("PASS"), detail |-> detail]

\* one entry of rule_trace
RuleEntry(rule_id, rule_name, status, detail) ==
    [rule_id |-> Lit(rule_id), rule_name |-> Lit(rule_name),
     status |-> Lit(status), detail |-> detail]

_evaluate_legacy_rule(payload) ==
    IF SameValue(Get(payload, "assert"), VBool(TRUE))
    THEN [decision |-> Lit("ACCEPT"),
          reasons |-> <<Lit("Legacy MVP rule: payload.assert == true")>>,
          rule_trace |-> <<RuleEntry("LEGACY", "mvp_assert_check", "PASS",
                                     Lit("payload.assert == true"))>>]
    ELSE IF ~HasKey(payload, "assert")
    THEN [decision |-> Lit("REJECT"),
          reasons |-> <<Lit("Legacy MVP rule: payload.assert key not present")>>,
          rule_trace |-> <<RuleEntry("LEGACY", "mvp_assert_check", "FAIL",
                                     Lit("assert key missing"))>>]
    ELSE [decision |-> Lit("REJECT"),
          reasons |-> <<Cat(Lit("Legacy MVP rule: payload.assert == "),
                            Cat(PyStr(Get(payload, "assert")), Lit(" (not true)")))>>,
          rule_trace |-> <<RuleEntry("LEGACY", "mvp_assert_check", "FAIL",
                                     Cat(Lit("assert = "), PyStr(Get(payload, "assert"))))>>]

\* evaluate_with_policy(policy, payload) -> (decision, reasons, rule_trace)
evaluate_with_policy(policy, payload) ==
    LET decision_requested == Get(payload, "decision_requested")
        justification == Get(payload, "justification")
        Reject(reason, rule_trace) ==
            [decision |-> Lit("REJECT"), reasons |-> <<reason>>, rule_trace |-> rule_trace]
        r1 == <<RuleEntry("R001", "check_decision_requested_present", "PASS",
                    Cat(Lit("payload.decision_requested = "), PyStr(decision_requested)))>>
        r2 == Append(r1, RuleEntry("R002", "check_decision_requested_valid", "PASS",
                    Cat(Lit("decision_requested = '"),
                        Cat(PyStr(decision_requested), Lit("' is valid")))))
        r3 == Append(r2, RuleEntry("R003", "check_justification_present", "PASS",
                    Lit("payload.justification found")))
        r4 == Append(r3, RuleEntry("R004", "check_justification_non_empty", "PASS",
                    Lit("justification has " \o ToString(TextLen(justification.v))
                            \o " chars")))
    IN
    IF Get(policy, "legacy").t = "bool" /\ Get(policy, "legacy").v
    THEN _evaluate_legacy_rule(payload)
    ELSE IF IsNone(decision_requested)
    THEN Reject(Lit("R001:MISSING_DECISION_REQUESTED: Required field 'decision_requested' is missing from payload"),
                <<RuleEntry("R001", "check_decision_requested_present", "FAIL",
                            Lit("payload.decision_requested not found"))>>)
    ELSE IF ~(SameValue(decision_requested, S("ACCEPT"))
                \/ SameValue(decision_requested, S("REJECT")))
    THEN Reject(Cat(Lit("R002:INVALID_DECISION_REQUESTED: Field 'decision_requested' must be exactly 'ACCEPT' or 'REJECT', got '"),
                    Cat(PyStr(decision_requested), Lit("'"))),
                Append(r1, RuleEntry("R002", "check_decision_requested_valid", "FAIL",
                    Cat(Lit("decision_requested = '"),
                        Cat(PyStr(decision_requested), Lit("' is not valid"))))))
    ELSE IF IsNone(justification)
    THEN Reject(Lit("R003:MISSING_JUSTIFICATION: Required field 'justification' is missing from payload"),
                Append(r2, RuleEntry("R003", "check_justification_present", "FAIL",
                                     Lit("payload.justification not found"))))
    ELSE IF justification.t # "str" \/ TextLen(strip(justification.v)) = 0
    THEN Reject(Lit("R004:EMPTY_JUSTIFICATION: Field 'justification' must be a non-empty string"),
                Append(r3, RuleEntry("R004", "check_justification_non_empty", "FAIL",
                                     Lit("justification is empty or not a string"))))
    ELSE [decision |-> decision_requested.v,
          reasons |-> <<Cat(Lit("R005:DECISION_RECORDED: Decision '"),
                            Cat(PyStr(decision_requested),
                                Lit("' recorded with justification")))>>,
          rule_trace |-> Append(r4, RuleEntry("R005", "apply_decision", "PASS",
                            Cat(Lit("Recording decision="), PyStr(decision_requested))))]

(* ------------------------------- Store --------------------------------- *)
VARIABLES
    root,       \* the artifact root: "ok", "missing" or "readonly"
    dirs,       \* the evaluation ids E for which evaluations/<E>/ exists
    files,      \* path -> bytes, for every regular file under the artifact root
    probe,      \* TRUE while <artifacts>/.write_test exists
    th,         \* th[t]: the handler thread t inside POST /evaluate
    faults,     \* number of I/O errors injected so far
    obs,        \* the read (replay, load or bundle) made in the last step, what it
                \* gave back, whether the id was committed and which edits had been
                \* made then; NothingSeen when the last step was not a read
    tampered    \* the out-of-band edits made to committed artifacts, in order

Threads == {"t1", "t2"}

EvalPath(evaluation_id, name) == <<"evaluations", evaluation_id, name>>

\* manifests/<evaluation_id>.manifest.json
ManifestPath(evaluation_id) == <<"manifests", evaluation_id, "manifest.json">>

Exists(path) == path \in DOMAIN files

\* os.path.isdir(os.path.join(EVALUATIONS_DIR, evaluation_id)); joining the empty id
\* gives EVALUATIONS_DIR itself, which startup creates
evaluation_exists(evaluation_id) == evaluation_id = <<>> \/ evaluation_id \in dirs

NoError == [type |-> "", msg |-> ""]

AlreadyExists == [type |-> "InvariantViolation", msg |-> "Evaluation already exists (append-only)"]

NotWritable == [type |-> "InvariantViolation", msg |-> "Artifacts directory not writable"]

NoArtifactsDir == [type |-> "InvariantViolation", msg |-> "Artifacts directory does not exist"]

FileExistsError == [type |-> "FileExistsError", msg |-> "makedirs: File exists"]

\* the order in which store_evaluation writes its files
WriteOrder == <<"input.json", "trace.json", "output.json", "metadata.json", "manifest.json">>

ArtifactPaths(evaluation_id) ==
    {EvalPath(evaluation_id, "input.json"), EvalPath(evaluation_id, "output.json"),
     EvalPath(evaluation_id, "trace.json"), EvalPath(evaluation_id, "metadata.json"),
     ManifestPath(evaluation_id)}

\* the full five-file set of an evaluation is in place
Committed(evaluation_id) == \A path \in ArtifactPaths(evaluation_id) : Exists(path)

TargetPath(k, evaluation_id) ==
    IF WriteOrder[k] = "manifest.json" THEN ManifestPath(evaluation_id)
    ELSE EvalPath(evaluation_id, WriteOrder[k])

OutputData(result) ==
    VDict(<<<<"evaluation_id", VStr(result.evaluation_id)>>,
            <<"input_sha256", VStr(result.input_sha256)>>,
            <<"output_sha256", VStr(result.output_sha256)>>,
            <<"decision", VStr(result.decision)>>,
            <<"reasons", VList([i \in 1..Len(result.reasons) |-> VStr(result.reasons[i])])>>,
            <<"created_time_utc", VStr(result.created_time_utc)>>>>)

\* {"path": name, "sha256": sha256, "size": size} of one written file
FileEntry(name, data) ==
    LET canonical == canonicalize_json(data)
    IN VDict(<<<<"path", S(name)>>, <<"sha256", VStr(compute_sha256(canonical))>>,
               <<"size", VInt(ByteLen(canonical))>>>>)

\* the manifest with its entries in the order the files are written
ManifestDataAsWritten(request, result) ==
    VDict(<<<<"evaluation_id", VStr(result.evaluation_id)>>,
            <<"files", VList(<<FileEntry("input.json", RequestDump(request)),
                               FileEntry("trace.json", TraceDump(result.trace)),
                               FileEntry("output.json", OutputData(result))>>)>>>>)

ManifestData(request, result) ==
    VDict(<<<<"evaluation_id", VStr(result.evaluation_id)>>,
            <<"files", VList(<<FileEntry("input.json", RequestDump(request)),
                               FileEntry("output.json", OutputData(result)),
                               FileEntry("trace.json", TraceDump(result.trace))>>)>>>>)

ManifestSha(request, result) ==
    compute_sha256(canonicalize_json(ManifestData(request, result)))

Metadata(request, result) ==
    VDict(<<<<"evaluation_id", VStr(result.evaluation_id)>>,
            <<"injected_time_utc", VStr(request.injected_time_utc)>>,
            <<"subject", VStr(request.subject)>>,
            <<"ruleset", VStr(request.ruleset)>>,
            <<"input_sha256", VStr(result.input_sha256)>>,
            <<"output_sha256", VStr(result.output_sha256)>>,
            <<"trace_sha256", VStr(compute_sha256(canonicalize_json(TraceDump(result.trace))))>>,
            <<"manifest_sha256", VStr(ManifestSha(request, result))>>>>)

\* manifest_data["manifest_sha256"] = manifest_sha256
ManifestFileData(request, result) ==
    LET manifest_data == ManifestData(request, result)
    IN DictSet(manifest_data, "manifest_sha256",
               VStr(compute_sha256(canonicalize_json(manifest_data))))

\* the object handed to the k-th _write_json_file call
WriteData(k, request, result) ==
    CASE WriteOrder[k] = "input.json"    -> RequestDump(request)
      [] WriteOrder[k] = "trace.json"    -> TraceDump(result.trace)
      [] WriteOrder[k] = "output.json"   -> OutputData(result)
      [] WriteOrder[k] = "metadata.json" -> Metadata(request, result)
      [] WriteOrder[k] = "manifest.json" -> ManifestFileData(request, result)

\* tempfile.mkstemp(dir=os.path.dirname(path)): a fresh name in the target's directory
TempPathInPlace(t, path) == path

TempPath(t, path) ==
    IF path[1] = "manifests" THEN <<"manifests", <<>>, "tmp_" \o t>>
    ELSE <<path[1], path[2], "tmp_" \o t>>

Remove(path, fs) == [q \in DOMAIN fs \ {path} |-> fs[q]]

Put(path, data, fs) == [q \in DOMAIN fs \cup {path} |-> IF q = path THEN data ELSE fs[q]]

IdleThread ==
    [pc |-> "idle", calls |-> 0, request |-> <<>>, result |-> <<>>, k |-> 0,
     fd |-> "none", closes |-> 0, dup |-> FALSE, peers |-> {},
     status |-> 0, error |-> NoError]

InFlight(t) == th[t].pc \notin {"idle", "done"}

\* the call of thread t ends: the exception (or none) and the HTTP status of the route
Finish(t, error, status) ==
    [th EXCEPT ![t].pc = "done", ![t].error = error, ![t].status = status]

(* ------------------------- request bodies ------------------------------ *)
Body(version, payload) ==
    VDict(<<<<"version", S(version)>>, <<"subject", S("s")>>, <<"ruleset", S("r")>>,
            <<"payload", VDict(payload)>>,
            <<"injected_time_utc", S("2024-01-01T00:00:00Z")>>>>)

BodyAssert == Body("v1", <<<<"assert", VBool(TRUE)>>>>)

BodyDecision ==
    Body("v1", <<<<"decision_requested", S("ACCEPT")>>, <<"justification", S("ok")>>>>)

\* BodyDecision with the payload keys in the other order
BodyDecisionPermuted ==
    Body("v1", <<<<"justification", S("ok")>>, <<"decision_requested", S("ACCEPT")>>>>)

BodyAssertFalse == Body("v1", <<<<"assert", VBool(FALSE)>>>>)

BodyBadVersion == Body("v2", <<<<"assert", VBool(TRUE)>>>>)

\* the bodies POSTed to /evaluate
Bodies == {BodyAssert, BodyDecision, BodyDecisionPermuted, BodyBadVersion}

\* the identifier run_evaluation derives for a valid body
IdOf(body) == run_evaluation(EvaluationRequest(body).request).result.evaluation_id

(* --------------------- POST /evaluate, store_evaluation ----------------- *)
\* for each body: EvaluationRequest(**body), and run_evaluation(eval_request) when the
\* body is accepted (both are functions of the body alone)
Handled ==
    [body \in Bodies |->
        LET parsed == EvaluationRequest(body)
        IN [parsed |-> parsed,
            ev |-> IF parsed.ok THEN run_evaluation(parsed.request)
                   ELSE [raised |-> "", result |-> <<>>, input_sha256 |-> <<>>]]]

storeVars == <<root, dirs, files, probe, th, faults>>

engineVars == <<clock, eng, evalLog>>

vars == <<clock, eng, evalLog, root, dirs, files, probe, th, faults, obs, tampered>>

\* no read was made in the last step
NothingSeen ==
    [op |-> "none", evaluation_id |-> <<>>, name |-> "", committed |-> FALSE,
     edits |-> <<>>, value |-> <<>>]

ValidationError == [type |-> "ValidationError", msg |-> "request rejected by the schema"]

\* evaluate(): parse the body, run the engine, enter store_evaluation.
\* serial: t is the one worker, which takes its next request when the last is answered
\* (async handler with no await inside); otherwise t is a handler of its own that
\* serves one request in parallel with the others
Evaluate(t, body, serial) ==
    /\ IF serial THEN th[t].pc \in {"idle", "done"} /\ th[t].calls < MaxCalls
                 ELSE th[t].pc = "idle"
    /\ LET parsed == Handled[body].parsed
           ev     == Handled[body].ev
           fresh  == [IdleThread EXCEPT !.calls = th[t].calls + 1]
       IN th' = [u \in Threads |->
              IF u = t
              THEN IF ~parsed.ok
                   THEN [fresh EXCEPT !.pc = "done", !.status = 422, !.error = ValidationError]
                   ELSE IF ev.raised # ""
                   THEN [fresh EXCEPT !.pc = "done",
                            !.status = IF ev.raised = "InvariantViolation" THEN 400 ELSE 500,
                            !.error = [type |-> ev.raised, msg |-> "engine"]]
                   ELSE [fresh EXCEPT !.pc = "probe_write",
                            !.request = parsed.request,
                            !.result = ev.result,
                            !.dup = Committed(ev.result.evaluation_id),
                            !.peers = {v \in Threads \ {t} : InFlight(v)}]
              ELSE IF InFlight(u) /\ parsed.ok /\ ev.raised = ""
                   THEN [th[u] EXCEPT !.peers = @ \cup {t}]
                   ELSE th[u]]
    /\ obs' = NothingSeen
    /\ UNCHANGED <<root, dirs, files, probe, faults, tampered, engineVars>>

\* verify_artifacts_dir_writable: isdir, then open(test_file, "w") and write
VerifyWritableOpen(t) ==
    /\ th[t].pc = "probe_write"
    /\ IF root = "missing"
       THEN th' = Finish(t, NoArtifactsDir, 409) /\ probe' = probe
       ELSE IF root = "readonly"
       THEN th' = Finish(t, NotWritable, 409) /\ probe' = probe
       ELSE th' = [th EXCEPT ![t].pc = "probe_remove"] /\ probe' = TRUE
    /\ obs' = NothingSeen
    /\ UNCHANGED <<root, dirs, files, faults, tampered, engineVars>>

\* verify_artifacts_dir_writable: os.remove(test_file); an OSError becomes
\* InvariantViolation("Artifacts directory not writable")
VerifyWritableRemove(t) ==
    /\ th[t].pc = "probe_remove"
    /\ IF probe
       THEN th' = [th EXCEPT ![t].pc = "check_existing"] /\ probe' = FALSE
       ELSE th' = Finish(t, NotWritable, 409) /\ probe' = probe
    /\ obs' = NothingSeen
    /\ UNCHANGED <<root, dirs, files, faults, tampered, engineVars>>

verify_no_existing_evaluation_skipped(t) ==
    /\ th[t].pc = "check_existing"
    /\ th' = [th EXCEPT ![t].pc = "makedirs"]
    /\ obs' = NothingSeen
    /\ UNCHANGED <<root, dirs, files, probe, faults, tampered, engineVars>>

\* verify_no_existing_evaluation(eval_dir)
verify_no_existing_evaluation(t) ==
    /\ th[t].pc = "check_existing"
    /\ IF th[t].result.evaluation_id \in dirs
       THEN th' = Finish(t, AlreadyExists, 409)
       ELSE th' = [th EXCEPT ![t].pc = "makedirs"]
    /\ obs' = NothingSeen
    /\ UNCHANGED <<root, dirs, files, probe, faults, tampered, engineVars>>

\* os.makedirs(eval_dir, exist_ok=False)
MakeDirs(t) ==
    /\ th[t].pc = "makedirs"
    /\ IF th[t].result.evaluation_id \in dirs
       THEN th' = Finish(t, FileExistsError, 500) /\ dirs' = dirs
       ELSE /\ th' = [th EXCEPT ![t].pc = "mkstemp", ![t].k = 1]
            /\ dirs' = dirs \cup {th[t].result.evaluation_id}
    /\ obs' = NothingSeen
    /\ UNCHANGED <<root, files, probe, faults, tampered, engineVars>>

CurrentTarget(t) == TargetPath(th[t].k, th[t].result.evaluation_id)

CurrentTemp(t) == TempPath(t, CurrentTarget(t))

\* _atomic_write: fd, temp_path = tempfile.mkstemp(dir=dir_path)
Mkstemp(t) ==
    /\ th[t].pc = "mkstemp"
    /\ files' = Put(CurrentTemp(t), <<>>, files)
    /\ th' = [th EXCEPT ![t].pc = "write", ![t].fd = "open", ![t].closes = 0]
    /\ obs' = NothingSeen
    /\ UNCHANGED <<root, dirs, probe, faults, tampered, engineVars>>

\* _atomic_write: os.write(fd, data); os.fsync(fd)
OsWrite(t) ==
    /\ th[t].pc = "write"
    /\ files' = Put(CurrentTemp(t),
                    canonicalize_json(WriteData(th[t].k, th[t].request, th[t].result)),
                    files)
    /\ th' = [th EXCEPT ![t].pc = "rename"]
    /\ obs' = NothingSeen
    /\ UNCHANGED <<root, dirs, probe, faults, tampered, engineVars>>

\* _atomic_write: os.close(fd); os.rename(temp_path, path); after the fifth file
\* store_evaluation returns final_result and the route answers 200
OsRename(t) ==
    /\ th[t].pc = "rename"
    /\ files' = Put(CurrentTarget(t), files[CurrentTemp(t)], Remove(CurrentTemp(t), files))
    /\ IF th[t].k < Len(WriteOrder)
       THEN th' = [th EXCEPT ![t].pc = "mkstemp", ![t].k = @ + 1,
                             ![t].fd = "closed", ![t].closes = 1]
       ELSE th' = [th EXCEPT ![t].pc = "done", ![t].status = 200,
                             ![t].fd = "closed", ![t].closes = 1,
                             ![t].result.manifest_sha256 =
                                 ManifestSha(th[t].request, th[t].result)]
    /\ obs' = NothingSeen
    /\ UNCHANGED <<root, dirs, probe, faults, tampered, engineVars>>

\* os.write or os.fsync raises: the handler closes fd, removes the temp file, re-raises
WriteFails(t) ==
    /\ th[t].pc = "write"
    /\ faults < MaxFaults
    /\ faults' = faults + 1
    /\ files' = Remove(CurrentTemp(t), files)
    /\ th' = [Finish(t, [type |-> "OSError", msg |-> "I/O error"], 500) EXCEPT ![t].fd = "closed", ![t].closes = 1]
    /\ obs' = NothingSeen
    /\ UNCHANGED <<root, dirs, probe, tampered, engineVars>>

\* os.close or os.rename raises: fd is already released, so the os.close(fd) of the
\* handler raises EBADF itself; the temp file is not removed
CloseOrRenameFails(t) ==
    /\ th[t].pc = "rename"
    /\ faults < MaxFaults
    /\ faults' = faults + 1
    /\ th' = [Finish(t, [type |-> "OSError", msg |-> "Bad file descriptor"], 500)
                 EXCEPT ![t].fd = "closed", ![t].closes = 2]
    /\ obs' = NothingSeen
    /\ UNCHANGED <<root, dirs, files, probe, tampered, engineVars>>

StoreStep(t) ==
    \/ VerifyWritableOpen(t)
    \/ VerifyWritableRemove(t)
    \/ verify_no_existing_evaluation(t)
    \/ MakeDirs(t)
    \/ Mkstemp(t)
    \/ OsWrite(t)
    \/ OsRename(t)
    \/ WriteFails(t)
    \/ CloseOrRenameFails(t)

(* ------------------------------ loads ----------------------------------- *)
\* if not os.path.exists(path): return None;  json.loads(f.read().decode("utf-8"))
LoadJson(path) ==
    IF ~Exists(path) THEN [raised |-> "", value |-> VNull]
    ELSE IF files[path] = <<>> THEN [raised |-> "JSONDecodeError", value |-> VNull]
    ELSE [raised |-> "", value |-> json_loads(files[path])]

load_evaluation_input(evaluation_id) == LoadJson(EvalPath(evaluation_id, "input.json"))

load_evaluation_output(evaluation_id) == LoadJson(EvalPath(evaluation_id, "output.json"))

load_evaluation_trace(evaluation_id) == LoadJson(EvalPath(evaluation_id, "trace.json"))

load_evaluation_metadata(evaluation_id) == LoadJson(EvalPath(evaluation_id, "metadata.json"))

load_evaluation_manifest(evaluation_id) == LoadJson(ManifestPath(evaluation_id))

LoadByName(evaluation_id, name) ==
    CASE name = "input.json"    -> load_evaluation_input(evaluation_id)
      [] name = "output.json"   -> load_evaluation_output(evaluation_id)
      [] name = "trace.json"    -> load_evaluation_trace(evaluation_id)
      [] name = "metadata.json" -> load_evaluation_metadata(evaluation_id)
      [] name = "manifest.json" -> load_evaluation_manifest(evaluation_id)

RECURSIVE InsertName(_, _)
InsertName(x, sorted) ==
    IF sorted = <<>> THEN <<x>>
    ELSE IF StrLess(x, Head(sorted)) THEN <<x>> \o sorted
    ELSE <<Head(sorted)>> \o InsertName(x, Tail(sorted))

RECURSIVE SortedNames(_)
\* sorted(names)
SortedNames(names) ==
    IF names = {} THEN <<>>
    ELSE LET x == CHOOSE y \in names : TRUE
         IN InsertName(x, SortedNames(names \ {x}))

\* the bundle made from the artifact tree (fs: path -> bytes, ds: the evaluation
\* directories), with the entries stamped with the time handed in
BundleFromStamped(fs, ds, evaluation_id, injected_time_utc) ==
    IF ~(evaluation_id = <<>> \/ evaluation_id \in ds)
    THEN [none |-> TRUE, entries |-> <<>>]
    ELSE LET listdir == {path[3] : path \in {q \in DOMAIN fs : /\ q[1] = "evaluations"
                                                               /\ q[2] = evaluation_id}}
             names == SortedNames(listdir)
             fixed_time == injected_time_utc
             listed == [i \in 1..Len(names) |->
                          [name |-> names[i], date_time |-> fixed_time,
                           data |-> fs[EvalPath(evaluation_id, names[i])]]]
         IN [none |-> FALSE,
             entries |-> IF ManifestPath(evaluation_id) \in DOMAIN fs
                         THEN Append(listed, [name |-> "manifest.json",
                                              date_time |-> fixed_time,
                                              data |-> fs[ManifestPath(evaluation_id)]])
                         ELSE listed]

\* create_evaluation_bundle on the artifact tree (fs: path -> bytes, ds: the
\* evaluation directories).  The ZIP is the sequence of its entries (name under
\* <evaluation_id>/, date_time, data); None is [none |-> TRUE].  listdir is
\* os.listdir(eval_dir), regular files only.
BundleFrom(fs, ds, evaluation_id, injected_time_utc) ==
    IF ~(evaluation_id = <<>> \/ evaluation_id \in ds)
    THEN [none |-> TRUE, entries |-> <<>>]
    ELSE LET listdir == {path[3] : path \in {q \in DOMAIN fs : /\ q[1] = "evaluations"
                                                               /\ q[2] = evaluation_id}}
             names == SortedNames(listdir)
             fixed_time == <<2000, 1, 1, 0, 0, 0>>
             listed == [i \in 1..Len(names) |->
                          [name |-> names[i], date_time |-> fixed_time,
                           data |-> fs[EvalPath(evaluation_id, names[i])]]]
         IN [none |-> FALSE,
             entries |-> IF ManifestPath(evaluation_id) \in DOMAIN fs
                         THEN Append(listed, [name |-> "manifest.json",
                                              date_time |-> fixed_time,
                                              data |-> fs[ManifestPath(evaluation_id)]])
                         ELSE listed]

create_evaluation_bundle(evaluation_id, injected_time_utc) ==
    BundleFrom(files, dirs, evaluation_id, injected_time_utc)

(* ------------------------------ Replay ---------------------------------- *)
LEGACY_POLICY_ID == Lit("mvp-placeholder-v0")

\* the parameters of def run_evaluation(request)
run_evaluation_params == {"request"}

\* the call run_evaluation(request, **kwargs): an unexpected keyword is a TypeError
CallRunEvaluation(request, kwargs) ==
    IF kwargs \subseteq run_evaluation_params THEN run_evaluation(request)
    ELSE [raised |-> "TypeError", result |-> <<>>, input_sha256 |-> <<>>]

NoVerdict == [present |-> FALSE, replay_ok |-> FALSE, mismatches |-> <<>>]

\* a missing artifact reported as a failed replay instead of an error
ReplayErrorAsVerdict(message) ==
    [raised |-> "",
     verdict |-> [present |-> TRUE, replay_ok |-> FALSE, mismatches |-> <<message>>],
     error |-> ""]

\* return None, f"...: {evaluation_id}"
ReplayError(message) == [raised |-> "", verdict |-> NoVerdict, error |-> message]

ReplayResult(replay_ok, mismatches) ==
    [raised |-> "",
     verdict |-> [present |-> TRUE, replay_ok |-> replay_ok, mismatches |-> mismatches],
     error |-> ""]

ReplayRaises(exception) == [raised |-> exception, verdict |-> NoVerdict, error |-> ""]

\* lines 66-99: the comparisons made once run_evaluation has returned new_result
CompareReplay(evaluation_id, saved_output, saved_policy_id, new_result) ==
    IF "policy_id" \notin DOMAIN new_result THEN ReplayRaises("AttributeError")
    ELSE LET mismatches ==
                (IF new_result.evaluation_id # evaluation_id
                    THEN <<"evaluation_id mismatch">> ELSE <<>>)
             \o (IF ~SameValue(VStr(new_result.input_sha256), Get(saved_output, "input_sha256"))
                    THEN <<"input_sha256 mismatch">> ELSE <<>>)
             \o (IF ~SameValue(VStr(new_result.output_sha256), Get(saved_output, "output_sha256"))
                    THEN <<"output_sha256 mismatch">> ELSE <<>>)
             \o (IF ~SameValue(VStr(new_result.decision), Get(saved_output, "decision"))
                    THEN <<"decision mismatch">> ELSE <<>>)
             \o (IF ~SameValue(VStr(new_result.policy_id), saved_policy_id)
                    THEN <<"policy_id mismatch">> ELSE <<>>)
         IN ReplayResult(mismatches = <<>>, mismatches)

replay_evaluation(evaluation_id) ==
    LET saved_input    == load_evaluation_input(evaluation_id)
        saved_output   == load_evaluation_output(evaluation_id)
        saved_manifest == load_evaluation_manifest(evaluation_id)
    IN
    IF ~evaluation_exists(evaluation_id) THEN ReplayError("Evaluation not found")
    ELSE IF saved_input.raised # "" THEN ReplayRaises(saved_input.raised)
    ELSE IF IsNone(saved_input.value) THEN ReplayError("input.json not found")
    ELSE IF saved_output.raised # "" THEN ReplayRaises(saved_output.raised)
    ELSE IF IsNone(saved_output.value) THEN ReplayError("output.json not found")
    ELSE IF saved_manifest.raised # "" THEN ReplayRaises(saved_manifest.raised)
    ELSE IF IsNone(saved_manifest.value) THEN ReplayError("manifest.json not found")
    ELSE IF saved_output.value.t # "dict" THEN ReplayRaises("AttributeError")
    ELSE
    LET saved_policy_id == IF IsNone(Get(saved_output.value, "policy_id"))
                           THEN VStr(LEGACY_POLICY_ID)
                           ELSE Get(saved_output.value, "policy_id")
        parsed == EvaluationRequest(saved_input.value)
        call   == CallRunEvaluation(parsed.request, {"request", "policy_id"})
    IN IF ~parsed.ok THEN ReplayResult(FALSE, <<"Failed to parse saved input">>)
       ELSE IF call.raised # "" THEN ReplayRaises(call.raised)
       ELSE CompareReplay(evaluation_id, saved_output.value, saved_policy_id, call.result)

(* ------------------------- reads of the store --------------------------- *)
\* the identifiers asked for; each one is read before and after it is stored;
\* the empty one names the evaluations directory itself, and the one with path
\* separators a place outside the artifact tree, where no evaluation is
ReplayIds == {IdOf(BodyAssert), IdOf(BodyDecision), <<>>, Lit("../../../etc")}

LoadIds == {IdOf(BodyAssert)}

\* Every read below is one step.  replay_evaluation and the loads test a path and
\* then open it; no step of the store removes or rewrites a path that a load can
\* name, so the value is the one of the state in which the last test was made.
\* A read changes nothing but obs, so a read that follows a read ends in the state
\* it ends in when made alone: reads are taken where the last step was not a read.
Replay(evaluation_id) ==
    /\ obs = NothingSeen
    /\ obs' = [op |-> "replay", evaluation_id |-> evaluation_id, name |-> "",
               committed |-> Committed(evaluation_id), edits |-> tampered,
               value |-> replay_evaluation(evaluation_id)]
    /\ UNCHANGED <<storeVars, tampered, engineVars>>

Load(evaluation_id, name) ==
    /\ obs = NothingSeen
    /\ obs' = [op |-> "load", evaluation_id |-> evaluation_id, name |-> name,
               committed |-> Committed(evaluation_id), edits |-> tampered,
               value |-> LoadByName(evaluation_id, name)]
    /\ UNCHANGED <<storeVars, tampered, engineVars>>

\* create_evaluation_bundle(evaluation_id, injected_time_utc); obs.name keeps the time
Bundle(evaluation_id, injected_time_utc) ==
    /\ obs = NothingSeen
    /\ obs' = [op |-> "bundle", evaluation_id |-> evaluation_id,
               name |-> injected_time_utc,
               committed |-> Committed(evaluation_id), edits |-> tampered,
               value |-> create_evaluation_bundle(evaluation_id, Lit(injected_time_utc))]
    /\ UNCHANGED <<storeVars, tampered, engineVars>>

Read ==
    \/ \E evaluation_id \in ReplayIds : Replay(evaluation_id)
    \/ \E evaluation_id \in LoadIds, i \in 1..Len(WriteOrder) : Load(evaluation_id, WriteOrder[i])
    \/ \E evaluation_id \in LoadIds,
          injected_time_utc \in {"2024-01-01T00:00:00Z", "2000-01-01T00:00:00Z"} :
          Bundle(evaluation_id, injected_time_utc)

(* ------------------- out-of-band edits of the artifacts ------------------ *)
\* the edits of the tamper tests: <<file, field>>
TamperedFields ==
    {<<"output.json", "input_sha256">>, <<"output.json", "output_sha256">>,
     <<"output.json", "decision">>, <<"output.json", "policy_id">>,
     <<"output.json", "evaluation_id">>, <<"output.json", "reasons">>,
     <<"output.json", "created_time_utc">>,
     <<"input.json", "subject">>, <<"input.json", "ruleset">>,
     <<"input.json", "payload">>, <<"input.json", "injected_time_utc">>,
     <<"input.json", "version">>}

\* the value an edit puts in the field, different from the stored one
TamperValue(field, current) ==
    CASE field = "input_sha256"      -> S("aaaaaaaaaaaaaaaaaaaaaaaaaaaaaaaaaaaaaaaaaaaaaaaaaaaaaaaaaaaaaaaa")
      [] field = "output_sha256"     -> S("0000000000000000000000000000000000000000000000000000000000000000")
      [] field = "decision"          -> IF SameValue(current, S("ACCEPT")) THEN S("REJECT")
                                        ELSE S("ACCEPT")
      [] field = "policy_id"         -> S("tampered-policy")
      [] field = "evaluation_id"     -> S("tampered")
      [] field = "reasons"           -> VList(<<S("tampered reason")>>)
      [] field = "created_time_utc"  -> S("2099-01-01T00:00:00Z")
      [] field = "subject"           -> S("tampered-subject")
      [] field = "ruleset"           -> S("tampered-ruleset")
      [] field = "payload"           -> DictSet(current, "tampered", VBool(TRUE))
      [] field = "injected_time_utc" -> S("2099-01-01T00:00:00Z")
      [] field = "version"           -> S("v2")

\* data = json.load(f); data[field] = value; json.dump(data, f)
Tamper(evaluation_id, file, field) ==
    /\ Len(tampered) < MaxTampers
    /\ \A t \in Threads : ~InFlight(t)
    /\ Committed(evaluation_id)
    /\ LET path == EvalPath(evaluation_id, file)
           data == json_loads(files[path])
       IN files' = Put(path, json_dump(DictSet(data, field, TamperValue(field, Get(data, field)))),
                       files)
    /\ tampered' = Append(tampered, [evaluation_id |-> evaluation_id,
                                     file |-> file, field |-> field])
    /\ obs' = NothingSeen
    /\ UNCHANGED <<root, dirs, probe, th, faults, engineVars>>

(* --------------------------- engine threads ----------------------------- *)
EngineBodies == {BodyAssert, BodyAssertFalse, BodyDecision}

Tick ==
    /\ clock < MaxClock
    /\ clock' = clock + 1
    /\ UNCHANGED <<eng, evalLog, storeVars, obs, tampered>>

\* thread t enters run_evaluation(request)
EngineCall(t, body) ==
    /\ eng[t].pc = 0
    /\ EvaluationRequest(body).ok
    /\ eng' = [eng EXCEPT ![t] = [pc |-> 1, e |-> EngineStart(EvaluationRequest(body).request)]]
    /\ UNCHANGED <<clock, evalLog, storeVars, obs, tampered>>

\* thread t runs the next phase of run_evaluation; the last one returns
EngineStep(t) ==
    /\ eng[t].pc \in 1..Len(EnginePhases)
    /\ LET e == Phase(EnginePhases[eng[t].pc], eng[t].e) IN
       IF e.raised # "" \/ eng[t].pc = Len(EnginePhases)
       THEN /\ eng' = [eng EXCEPT ![t] = [pc |-> 0, e |-> <<>>]]
            /\ evalLog' = evalLog \cup {[request |-> e.request, thread |-> t,
                                         returned |-> Returned(e)]}
       ELSE /\ eng' = [eng EXCEPT ![t] = [pc |-> eng[t].pc + 1, e |-> e]]
            /\ evalLog' = evalLog
    /\ UNCHANGED <<clock, storeVars, obs, tampered>>

(* ------------------- direct calls of the pure functions ------------------ *)
\* the payloads handed to evaluate_with_policy: each of the three keys the rules
\* read is absent, null, a good value or a bad value
PolicyPayloads ==
    LET absent == [t |-> "absent", v |-> <<>>]
        Opt(k, x) == IF x.t = "absent" THEN <<>> ELSE <<<<k, x>>>>
    IN {VDict(Opt("decision_requested", d) \o Opt("justification", j) \o Opt("assert", a)) :
          d \in {absent, VNull, S("ACCEPT"), S("REJECT"), S("MAYBE"), VBool(TRUE)},
          j \in {absent, VNull, S("ok"), S(""), S(" \t"), VInt(1)},
          a \in {absent, VBool(TRUE), VBool(FALSE)}}

\* evaluate_with_policy(load_policy(policy_id), payload); the function reads
\* nothing but its arguments, so each call is made from the initial state
EvaluatePolicy(policy_id, payload) ==
    /\ obs = NothingSeen
    /\ obs' = [NothingSeen EXCEPT
                  !.op = "policy", !.name = policy_id,
                  !.value = [payload |-> payload,
                             verdict |-> evaluate_with_policy(load_policy(policy_id),
                                                              payload)]]
    /\ UNCHANGED <<storeVars, engineVars, tampered>>

RECURSIVE Reorder(_, _)
\* every value obtained from x by permuting, at any depth, the keys of its objects
\* (kind = "dict") or the elements of its arrays (kind = "list")
Reorder(x, kind) ==
    IF x.t \notin {"dict", "list"} THEN {x}
    ELSE LET n == Len(x.v)
             Child(i) == IF x.t = "dict" THEN x.v[i][2] ELSE x.v[i]
             sub == [i \in 1..n |-> Reorder(Child(i), kind)]
             choices == {f \in [1..n -> UNION {sub[i] : i \in 1..n}] :
                            \A i \in 1..n : f[i] \in sub[i]}
             orders == IF x.t = kind THEN Permutations(1..n)
                       ELSE {[i \in 1..n |-> i]}
         IN {[t |-> x.t,
              v |-> [i \in 1..n |-> IF x.t = "dict" THEN <<x.v[p[i]][1], f[p[i]]>>
                                    ELSE f[p[i]]]] :
                p \in orders, f \in choices}

\* payloads with nested objects and arrays (test_determinism_hard.py:21-61)
CanonPayloads ==
    {VDict(<<<<"decision_requested", S("ACCEPT")>>, <<"justification", S("ok")>>,
             <<"meta", VDict(<<<<"tags", VList(<<VInt(1), VInt(2)>>)>>,
                               <<"level", VDict(<<<<"b", VBool(TRUE)>>,
                                                  <<"a", VNull>>>>)>>>>)>>>>),
     VDict(<<<<"b", VList(<<VDict(<<<<"y", VInt(1)>>, <<"x", VInt(2)>>>>),
                            S("s"), VInt(3)>>)>>,
             <<"a", VInt(1)>>>>)}

\* canonicalize_json and run_evaluation on a payload x, on a reordering y of its
\* object keys and on a reordering z of its arrays
Canonicalize(x, y, z) ==
    LET Run(payload) == run_evaluation(EvaluationRequest(Body("v1", payload.v)).request)
        Seen(payload) == [value |-> payload, bytes |-> canonicalize_json(payload),
                          input_sha256 |-> Run(payload).input_sha256,
                          evaluation_id |-> Run(payload).result.evaluation_id]
    IN /\ obs = NothingSeen
       /\ EvaluationRequest(Body("v1", x.v)).ok
       /\ obs' = [NothingSeen EXCEPT !.op = "canonicalize",
                                     !.value = [x |-> Seen(x), y |-> Seen(y), z |-> Seen(z)]]
       /\ UNCHANGED <<storeVars, engineVars, tampered>>

(* --------------------------- specifications ----------------------------- *)
Init ==
    /\ clock = 0
    /\ eng = [t \in Threads |-> [pc |-> 0, e |-> <<>>]]
    /\ evalLog = {}
    /\ root = "ok"
    /\ dirs = {}
    /\ files = [path \in {} |-> <<>>]
    /\ probe = FALSE
    /\ th = [t \in Threads |-> IdleThread]
    /\ faults = 0
    /\ obs = NothingSeen
    /\ tampered = <<>>

\* two handlers in parallel threads or processes, one request each
Next ==
    \/ \E t \in Threads, body \in Bodies : Evaluate(t, body, FALSE)
    \/ \E t \in Threads : StoreStep(t)

Spec == Init /\ [][Next]_vars

\* one worker that handles its requests one after the other; reads at any moment
NextSeq ==
    \/ \E body \in Bodies : Evaluate("t1", body, TRUE)
    \/ StoreStep("t1")
    \/ Read

SpecSeq == Init /\ [][NextSeq]_vars

\* one worker, no I/O errors; edits of committed artifacts; replay
NextTamper ==
    \/ \E body \in {BodyAssert, BodyDecision} : Evaluate("t1", body, TRUE)
    \/ VerifyWritableOpen("t1")
    \/ VerifyWritableRemove("t1")
    \/ verify_no_existing_evaluation("t1")
    \/ MakeDirs("t1")
    \/ Mkstemp("t1")
    \/ OsWrite("t1")
    \/ OsRename("t1")
    \/ \E evaluation_id \in ReplayIds, ff \in TamperedFields :
           Tamper(evaluation_id, ff[1], ff[2])
    \/ \E evaluation_id \in ReplayIds : Replay(evaluation_id)

SpecTamper == Init /\ [][NextTamper]_vars

NextEngine ==
    \/ Tick
    \/ \E t \in Threads, body \in EngineBodies : EngineCall(t, body)
    \/ \E t \in Threads : EngineStep(t)

SpecEngine == Init /\ [][NextEngine]_vars

\* EvaluationRequest(**body) followed, when the body is accepted, by
\* run_evaluation(eval_request), on a body with the fields at and around the limits of
\* the validators (the text lengths 0, 1, 128 and 129)
RunEvaluation(version, subject_len, ruleset_len, injected_time_utc, payload) ==
    LET a8 == "aaaaaaaa"
        a32 == a8 \o a8 \o a8 \o a8
        a128 == a32 \o a32 \o a32 \o a32
        text == [n \in {0, 1, 128, 129} |->
                    CASE n = 0 -> "" [] n = 1 -> "a" [] n = 128 -> a128
                      [] n = 129 -> a128 \o "a"]
        body == VDict(<<<<"version", S(version)>>,
                        <<"subject", S(text[subject_len])>>,
                        <<"ruleset", S(text[ruleset_len])>>,
                        <<"payload", payload>>,
                        <<"injected_time_utc", S(injected_time_utc)>>>>)
        parsed == EvaluationRequest(body)
    IN /\ obs = NothingSeen
       /\ obs' = [NothingSeen EXCEPT
                     !.op = "run_evaluation",
                     !.value = [body |-> body, parsed |-> parsed,
                                ev |-> IF parsed.ok THEN run_evaluation(parsed.request)
                                       ELSE [raised |-> "", result |-> <<>>,
                                             input_sha256 |-> <<>>]]]
       /\ UNCHANGED <<storeVars, engineVars, tampered>>

\* the pure functions called directly, on inputs drawn from bounded sets
NextPure ==
    \/ \E policy_id \in {"mvp-placeholder-v0", get_default_policy_id},
          payload \in PolicyPayloads : EvaluatePolicy(policy_id, payload)
    \/ \E x \in CanonPayloads :
          \E y \in Reorder(x, "dict"), z \in Reorder(x, "list") : Canonicalize(x, y, z)
    \/ \E version \in {"v1", "v2", ""}, subject_len \in {0, 1, 128, 129},
          ruleset_len \in {0, 1, 128, 129},
          injected_time_utc \in {"2024-01-01T00:00:00Z", "2024-01-01T00:00:00.5+02:00",
                                 "2024-01-01 00:00:00Z", ""},
          payload \in {VDict(<<>>), VDict(<<<<"assert", VBool(TRUE)>>>>),
                       VDict(<<<<"assert", VList(<<VNull, VInt(0)>>)>>>>), VList(<<>>)} :
          RunEvaluation(version, subject_len, ruleset_len, injected_time_utc, payload)

SpecPure == Init /\ [][NextPure]_vars

C2_ExactlyOneCommits ==
    \A t, u \in Threads :
        (/\ t # u
         /\ th[t].pc = "done" /\ th[t].error # ValidationError
         /\ th[u].pc = "done" /\ th[u].error # ValidationError
         /\ u \in th[t].peers
         /\ th[t].result.evaluation_id = th[u].result.evaluation_id
         /\ faults = 0
         /\ th[t].error # NotWritable /\ th[u].error # NotWritable)
        => \/ th[t].status = 200 /\ th[u].error = AlreadyExists /\ th[u].status = 409
           \/ th[u].status = 200 /\ th[t].error = AlreadyExists /\ th[t].status = 409

\* C3: in every reachable state, for each evaluation id either all five files exist
\* or the directory evaluations/<id>/ does not exist.
C3_AllOrNothing == \A evaluation_id \in dirs : Committed(evaluation_id)

\* C4: across store_evaluation, the loads, create_evaluation_bundle and
\* replay_evaluation, a file that exists under one of the five artifact names (not
\* a temp file) keeps its content and stays in place in the next state, no
\* directory goes away, and a step that is a read changes nothing in the store.
C4_AppendOnly ==
    [][/\ \A path \in DOMAIN files :
              path[3] \in {WriteOrder[k] : k \in 1..Len(WriteOrder)}
                  => path \in DOMAIN files' /\ files'[path] = files[path]
       /\ dirs \subseteq dirs'
       /\ obs'.op # "none" => files' = files /\ dirs' = dirs /\ probe' = probe]_vars

\* the worker has committed an id, has handled a second request, and a replay of
\* the committed id has just run
C4_Witness ==
    /\ th["t1"].calls = MaxCalls /\ th["t1"].pc = "done"
    /\ obs.op = "replay" /\ obs.committed

\* the verdict of the last step's replay_evaluation is replay_ok = true, no mismatch
ReplayOk ==
    /\ obs.value.raised = ""
    /\ obs.value.error = ""
    /\ obs.value.verdict.present
    /\ obs.value.verdict.replay_ok
    /\ obs.value.verdict.mismatches = <<>>

\* the verdict of the last step's replay_evaluation is replay_ok = false
ReplayNotOk ==
    /\ obs.value.raised = ""
    /\ obs.value.verdict.present
    /\ ~obs.value.verdict.replay_ok
    /\ obs.value.verdict.mismatches # <<>>

Mentions(label) ==
    \E i \in 1..Len(obs.value.verdict.mismatches) : obs.value.verdict.mismatches[i] = label

\* the last step replayed a committed id whose only edit is <<file, field>>
ReplayedAfter(file, fields) ==
    /\ obs.op = "replay" /\ obs.committed
    /\ Len(obs.edits) = 1
    /\ obs.edits[1].evaluation_id = obs.evaluation_id
    /\ obs.edits[1].file = file
    /\ obs.edits[1].field \in fields

\* C5: replay_evaluation of a committed evaluation none of whose artifacts was
\* modified returns replay_ok = true with an empty mismatch list and no error.
C5_ReplayOfUntouched ==
    (obs.op = "replay" /\ obs.committed /\ obs.edits = <<>>) => ReplayOk

\* C6: after input_sha256, output_sha256, decision or policy_id of output.json was
\* replaced by a different value, replay_evaluation returns replay_ok = false with a
\* mismatch that names the changed field.
C6_OutputTamperDetected ==
    ReplayedAfter("output.json", {"input_sha256", "output_sha256", "decision", "policy_id"})
        => ReplayNotOk /\ Mentions(obs.edits[1].field \o " mismatch")

\* C7: after a change to input.json that changes the canonical bytes of the request,
\* replay_evaluation returns replay_ok = false: the recomputed input_sha256 and
\* evaluation_id differ from the saved ones, or the only mismatch is the parse failure.
C7_InputTamperDetected ==
    ReplayedAfter("input.json", {"subject", "ruleset", "payload", "injected_time_utc", "version"})
        => /\ ReplayNotOk
           /\ \/ Mentions("input_sha256 mismatch") /\ Mentions("evaluation_id mismatch")
              \/ obs.value.verdict.mismatches = <<"Failed to parse saved input">>

\* C8: after only evaluation_id, reasons or created_time_utc of output.json was
\* changed, replay_evaluation still returns replay_ok = true with no mismatch.
C8_UncheckedFieldsIgnored ==
    ReplayedAfter("output.json", {"evaluation_id", "reasons", "created_time_utc"}) => ReplayOk

C10_IdDerivation ==
    \A a \in evalLog :
        LET canonical == canonicalize_json(RequestDump(a.request)) IN
        /\ a.returned.raised = ""
        /\ a.returned.result.input_sha256 = <<[pre |-> canonical, n |-> 64]>>
        /\ a.returned.result.evaluation_id = <<[pre |-> canonical, n |-> 16]>>
        /\ TextLen(a.returned.result.evaluation_id) = 16
        /\ a.returned.input_sha256 = a.returned.result.input_sha256

\* run_evaluation has returned for a request with a two-key payload and for one
\* with a one-key payload (the request fields themselves are not in sorted order)
C10_Witness ==
    /\ \E a \in evalLog : a.request = EvaluationRequest(BodyDecision).request
    /\ \E a \in evalLog : a.request = EvaluationRequest(BodyAssert).request

C12_DefaultPolicyApplied ==
    \A a \in evalLog :
        LET decision_requested == Get(a.request.payload, "decision_requested")
            justification == Get(a.request.payload, "justification")
            expected == IF /\ decision_requested \in {S("ACCEPT"), S("REJECT")}
                           /\ justification.t = "str"
                           /\ TextLen(strip(justification.v)) > 0
                        THEN decision_requested.v
                        ELSE Lit("REJECT")
        IN /\ a.returned.raised = ""
           /\ a.returned.result.decision = expected
           /\ "policy_id" \in DOMAIN a.returned.result
           /\ a.returned.result.policy_id = Lit(get_default_policy_id)

\* C13: canonicalize_json gives the same bytes for a value and for any reordering of
\* its object keys at any depth, so the two requests get the same input_sha256 and
\* evaluation_id; it gives different bytes (and digests) as soon as the elements
\* of an array are reordered.
C13_KeyOrderInvariant ==
    obs.op = "canonicalize" =>
        LET x == obs.value.x
            y == obs.value.y
            z == obs.value.z
        IN /\ y.value \in Reorder(x.value, "dict")
           /\ y.bytes = x.bytes
           /\ y.input_sha256 = x.input_sha256
           /\ y.evaluation_id = x.evaluation_id
           /\ z.value \in Reorder(x.value, "list")
           /\ z.value # x.value => z.bytes # x.bytes /\ z.input_sha256 # x.input_sha256

\* canonicalize_json has run on a payload, on the same payload with its top-level
\* keys and the keys of a nested object in another order, and on the same payload
\* with a nested array in another order
C13_Witness ==
    /\ obs.op = "canonicalize"
    /\ obs.value.y.value.v[1][1] # obs.value.x.value.v[1][1]
    /\ \E i \in 1..Len(obs.value.x.value.v) :
          /\ obs.value.x.value.v[i][2].t = "dict"
          /\ ~\E j \in 1..Len(obs.value.y.value.v) :
                 obs.value.y.value.v[j] = obs.value.x.value.v[i]
    /\ obs.value.z.value # obs.value.x.value

\* C19: evaluate_with_policy on the default policy returns a rule_trace that lists
\* R001, R002, ... in this order, made of PASS entries followed either by exactly
\* one FAIL entry (for one of R001..R004; the decision is then REJECT and the single
\* reason starts with the id of that rule) or by nothing (then all of R001..R005
\* are there and PASS, the single reason starts with R005 and the decision is
\* decision_requested).  For a payload in which neither key is null, the failing
\* rule is the first of R001 (decision_requested absent), R002 (not ACCEPT or
\* REJECT), R003 (justification absent), R004 (not a string, or blank) that the
\* payload breaks.
C19_FirstFailureStops ==
    (obs.op = "policy" /\ obs.name = get_default_policy_id) =>
        LET payload == obs.value.payload
            verdict == obs.value.verdict
            rule_trace == verdict.rule_trace
            n == Len(rule_trace)
            ids == <<"R001", "R002", "R003", "R004", "R005">>
            decision_requested == Get(payload, "decision_requested")
            justification == Get(payload, "justification")
            broken == {k \in 1..4 :
                          \/ k = 1 /\ ~HasKey(payload, "decision_requested")
                          \/ k = 2 /\ decision_requested \notin {S("ACCEPT"), S("REJECT")}
                          \/ k = 3 /\ ~HasKey(payload, "justification")
                          \/ k = 4 /\ (\/ justification.t # "str"
                                       \/ TextLen(strip(justification.v)) = 0)}
            first == IF broken = {} THEN 5
                     ELSE CHOOSE k \in broken : \A j \in broken : k <= j
        IN /\ n \in 1..5
           /\ \A i \in 1..n : rule_trace[i].rule_id = Lit(ids[i])
           /\ \A i \in 1..(n - 1) : rule_trace[i].status = Lit("PASS")
           /\ Len(verdict.reasons) = 1
           /\ Prefix(verdict.reasons[1], 4) = Lit(ids[n])
           /\ IF n = 5
              THEN /\ rule_trace[n].status = Lit("PASS")
                   /\ verdict.decision = decision_requested.v
              ELSE /\ rule_trace[n].status = Lit("FAIL")
                   /\ verdict.decision = Lit("REJECT")
           /\ (~IsNone(decision_requested) /\ ~IsNone(justification)) => n = first

\* the default policy has just rejected a payload at R004, after three PASS entries
C19_Witness ==
    /\ obs.op = "policy" /\ obs.name = get_default_policy_id
    /\ Len(obs.value.verdict.rule_trace) = 4
    /\ obs.value.verdict.rule_trace[4].status = Lit("FAIL")
    /\ obs.value.payload.v[2][2] = S(" \t")

\* C20: in the default policy R001 passes exactly when the payload has the key
\* decision_requested, whatever its value, and R003 (when it is reached) passes
\* exactly when the payload has the key justification: a null decision_requested is
\* rejected by R002 and a null justification by R004.
C20_NullIsPresent ==
    (obs.op = "policy" /\ obs.name = get_default_policy_id) =>
        LET payload == obs.value.payload
            verdict == obs.value.verdict
            rule_trace == verdict.rule_trace
        IN /\ rule_trace[1].status = Lit("PASS") <=> HasKey(payload, "decision_requested")
           /\ Len(rule_trace) >= 3 =>
                 (rule_trace[3].status = Lit("PASS") <=> HasKey(payload, "justification"))
           /\ (HasKey(payload, "decision_requested")
                 /\ IsNone(Item(payload, "decision_requested")))
                 => Prefix(verdict.reasons[1], 4) = Lit("R002")
           /\ (HasKey(payload, "justification") /\ IsNone(Item(payload, "justification"))
                 /\ Len(rule_trace) >= 3)
                 => Prefix(verdict.reasons[1], 4) = Lit("R004")

C15_MissingGivesError ==
    obs.op = "replay" =>
        LET evaluation_id == obs.evaluation_id
            missing == \/ evaluation_id \notin dirs
                       \/ EvalPath(evaluation_id, "input.json") \notin DOMAIN files
                       \/ EvalPath(evaluation_id, "output.json") \notin DOMAIN files
                       \/ ManifestPath(evaluation_id) \notin DOMAIN files
        IN /\ missing => /\ obs.value.raised = ""
                         /\ ~obs.value.verdict.present
                         /\ obs.value.error # ""
           /\ obs.value.verdict.present => ~missing

\* a replay has just been answered "manifest.json not found" for an id whose
\* directory, input.json and output.json exist (store in progress or failed)
C15_Witness ==
    /\ obs.op = "replay" /\ obs.evaluation_id \in dirs
    /\ EvalPath(obs.evaluation_id, "output.json") \in DOMAIN files
    /\ ManifestPath(obs.evaluation_id) \notin DOMAIN files
    /\ obs.value.error = "manifest.json not found"

\* C16: the output.json that store_evaluation has written holds exactly the fields
\* evaluation_id, input_sha256, output_sha256, policy_id, decision, reasons and
\* created_time_utc, each with the value of the result the engine produced, and
\* policy_id is the id of the policy the evaluation was run under.
C16_OutputProjection ==
    \A t \in Threads :
        (th[t].pc = "done" /\ th[t].status = 200) =>
            LET result == th[t].result
                saved == json_loads(files[EvalPath(result.evaluation_id, "output.json")])
            IN /\ Get(saved, "evaluation_id") = VStr(result.evaluation_id)
               /\ Get(saved, "input_sha256") = VStr(result.input_sha256)
               /\ Get(saved, "output_sha256") = VStr(result.output_sha256)
               /\ Get(saved, "decision") = VStr(result.decision)
               /\ Get(saved, "reasons")
                     = VList([i \in 1..Len(result.reasons) |-> VStr(result.reasons[i])])
               /\ Get(saved, "created_time_utc") = VStr(result.created_time_utc)
               /\ Keys(saved) = {"evaluation_id", "input_sha256", "output_sha256",
                                 "policy_id", "decision", "reasons", "created_time_utc"}
               /\ Get(saved, "policy_id") = S(get_default_policy_id)

\* C17: output_sha256 is the SHA-256 of the canonical bytes of {evaluation_id,
\* input_sha256, policy_id, decision, reasons, trace, created_time_utc}, where trace
\* is the part of the returned trace that precedes compute_output_hash: it has the
\* pre, canonicalize, derive, during and rule steps, and neither compute_output_hash
\* nor a post_ step.
C17_HashedObject ==
    \A a \in evalLog :
        a.returned.raised = "" =>
            LET result == a.returned.result
                k == CHOOSE i \in 1..Len(result.trace) :
                        result.trace[i].step_name = Lit("compute_output_hash")
                snapshot == SubSeq(result.trace, 1, k - 1)
                names == {snapshot[i].step_name : i \in 1..Len(snapshot)}
                hashed == VDict(<<<<"evaluation_id", VStr(result.evaluation_id)>>,
                                  <<"input_sha256", VStr(result.input_sha256)>>,
                                  <<"policy_id", S(get_default_policy_id)>>,
                                  <<"decision", VStr(result.decision)>>,
                                  <<"reasons", VList([i \in 1..Len(result.reasons) |->
                                                         VStr(result.reasons[i])])>>,
                                  <<"trace", TraceDump(snapshot)>>,
                                  <<"created_time_utc", VStr(result.created_time_utc)>>>>)
            IN /\ \E i \in 1..Len(result.trace) :
                      result.trace[i].step_name = Lit("compute_output_hash")
               /\ Lit("canonicalize_input") \in names
               /\ Lit("derive_evaluation_id") \in names
               /\ \E x \in names : Prefix(x, 4) = Lit("pre_")
               /\ \E x \in names : Prefix(x, 7) = Lit("during_")
               /\ \A x \in names : Prefix(x, 5) # Lit("post_")
               /\ result.output_sha256 = compute_sha256(canonicalize_json(hashed))

\* C18: the trace of every returned result is, in this order: pre_ steps,
\* canonicalize_input, derive_evaluation_id, during_ steps, one or more rule_<id>_<name>
\* steps with status PASS or FAIL, compute_output_hash, post_ steps; nothing else
\* appears and every invariant step has status PASS.
C18_TraceOrder ==
    \A a \in evalLog :
        a.returned.raised = "" =>
            LET trace == a.returned.result.trace
                Class(step) ==
                    CASE Prefix(step.step_name, 4) = Lit("pre_") -> 1
                      [] step.step_name = Lit("canonicalize_input") -> 2
                      [] step.step_name = Lit("derive_evaluation_id") -> 3
                      [] Prefix(step.step_name, 7) = Lit("during_") -> 4
                      [] Prefix(step.step_name, 5) = Lit("rule_") -> 5
                      [] step.step_name = Lit("compute_output_hash") -> 6
                      [] Prefix(step.step_name, 5) = Lit("post_") -> 7
                      [] OTHER -> 0
                Count(c) == Cardinality({i \in 1..Len(trace) : Class(trace[i]) = c})
            IN /\ \A i \in 1..Len(trace) : Class(trace[i]) # 0
               /\ \A i \in 1..(Len(trace) - 1) : Class(trace[i]) <= Class(trace[i + 1])
               /\ Count(2) = 1 /\ Count(3) = 1 /\ Count(6) = 1
               /\ Count(1) >= 1 /\ Count(4) >= 1 /\ Count(5) >= 1 /\ Count(7) >= 1
               /\ \A i \in 1..Len(trace) :
                      /\ Class(trace[i]) \in {1, 4, 7} => trace[i].status = Lit("PASS")
                      /\ Class(trace[i]) = 5 => trace[i].status \in {Lit("PASS"), Lit("FAIL")}

\* C21: after a successful store_evaluation the manifest file lists exactly
\* input.json, output.json, trace.json in this order, each with the SHA-256 and the
\* byte length of the bytes that are in that file; its manifest_sha256 is the SHA-256
\* of the canonical bytes of the manifest without that field, and the same value is
\* in metadata.json and in the returned result.
C21_ManifestMatchesFiles ==
    \A t \in Threads :
        (th[t].pc = "done" /\ th[t].status = 200) =>
            LET evaluation_id == th[t].result.evaluation_id
                manifest == json_loads(files[ManifestPath(evaluation_id)])
                metadata == json_loads(files[EvalPath(evaluation_id, "metadata.json")])
                entries == Get(manifest, "files").v
                names == <<"input.json", "output.json", "trace.json">>
                bare == VDict(SelectSeq(manifest.v, LAMBDA kv : kv[1] # "manifest_sha256"))
            IN /\ Len(entries) = 3
               /\ \A i \in 1..3 :
                     LET persisted == files[EvalPath(evaluation_id, names[i])]
                     IN /\ Keys(entries[i]) = {"path", "sha256", "size"}
                        /\ Get(entries[i], "path") = S(names[i])
                        /\ Get(entries[i], "sha256") = VStr(compute_sha256(persisted))
                        /\ Get(entries[i], "size") = VInt(ByteLen(persisted))
               /\ Keys(manifest) = {"evaluation_id", "files", "manifest_sha256"}
               /\ Get(manifest, "manifest_sha256")
                     = VStr(compute_sha256(canonicalize_json(bare)))
               /\ Get(metadata, "manifest_sha256") = Get(manifest, "manifest_sha256")
               /\ VStr(th[t].result.manifest_sha256) = Get(manifest, "manifest_sha256")

\* a store has succeeded while the other handler was working on a request of its own
C21_Witness ==
    \E t \in Threads :
        /\ th[t].pc = "done" /\ th[t].status = 200
        /\ th[t].peers # {}
        /\ TextLen(th[t].result.manifest_sha256) = 64

C22_FailureCleansUp ==
    \A t \in Threads :
        (th[t].pc = "done" /\ th[t].error.type = "OSError") =>
            /\ ~Exists(CurrentTemp(t))
            /\ th[t].closes = 1
            /\ ~Exists(CurrentTarget(t))
            /\ th[t].error.msg = "I/O error"

\* C23: the ZIP of a committed id lists five entries, in ascending order of file name:
\* input.json, manifest.json, metadata.json, output.json, trace.json
C23_EntriesAscending ==
    (obs.op = "bundle" /\ obs.committed) =>
        /\ ~obs.value.none
        /\ [i \in 1..Len(obs.value.entries) |-> obs.value.entries[i].name]
               = <<"input.json", "manifest.json", "metadata.json", "output.json",
                   "trace.json">>

\* C26: at any moment, also in the middle of a store of the same id,
\* create_evaluation_bundle returns None or a ZIP holding exactly the five committed
\* files: no temp file and no partial set
C26_BundleAllOrNothing ==
    obs.op = "bundle" =>
        \/ obs.value.none
        \/ /\ Len(obs.value.entries) = 5
           /\ {obs.value.entries[i].name : i \in 1..Len(obs.value.entries)}
                  = {WriteOrder[k] : k \in 1..Len(WriteOrder)}
           /\ obs.committed

\* C24: POST /evaluate answers 409 exactly when the store found the evaluation
\* directory of the computed id already there; every other store failure (artifact
\* root missing or not writable, I/O error, lost os.makedirs race) is answered 500, and
\* an invariant violation of the engine is answered 400
C24_StatusOfFailure ==
    \A t \in Threads :
        th[t].pc = "done" =>
            /\ th[t].status = 409 <=> th[t].error = AlreadyExists
            /\ th[t].error \in {NotWritable, NoArtifactsDir, FileExistsError}
                   => th[t].status = 500
            /\ th[t].error.type = "OSError" => th[t].status = 500
            /\ (th[t].error.type = "InvariantViolation" /\ th[t].error.msg = "engine")
                   => th[t].status = 400

\* C25: two store_evaluation calls for different ids that run at the same time on a
\* writable artifact root, with no I/O error, both succeed and both five-file sets are
\* committed
C25_DistinctIdsBothSucceed ==
    \A t \in Threads : \A u \in Threads \ {t} :
        (/\ th[t].pc = "done" /\ th[u].pc = "done"
         /\ u \in th[t].peers
         /\ th[t].result # <<>> /\ th[u].result # <<>>
         /\ th[t].result.evaluation_id # th[u].result.evaluation_id
         /\ faults = 0 /\ root = "ok") =>
            /\ th[t].status = 200 /\ th[u].status = 200
            /\ Committed(th[t].result.evaluation_id)
            /\ Committed(th[u].result.evaluation_id)

C29_LoadSeesNoneOrAll ==
    (obs.op = "load" /\ \E t \in Threads : /\ th[t].result # <<>>
                                           /\ th[t].result.evaluation_id = obs.evaluation_id) =>
        LET t == CHOOSE u \in Threads : /\ th[u].result # <<>>
                                        /\ th[u].result.evaluation_id = obs.evaluation_id
            k == CHOOSE i \in 1..Len(WriteOrder) : WriteOrder[i] = obs.name
            path == TargetPath(k, obs.evaluation_id)
        IN /\ obs.value.raised = ""
           /\ IF Exists(path)
              THEN obs.value.value
                       = json_loads(canonicalize_json(
                             WriteData(k, th[t].request, th[t].result)))
              ELSE obs.value.value = VNull

\* output.json has just been loaded, with its content, while the store of the same id
\* is still writing the later files
C29_Witness ==
    /\ obs.op = "load" /\ obs.name = "output.json"
    /\ th["t1"].pc \in {"mkstemp", "write", "rename"}
    /\ th["t1"].result.evaluation_id = obs.evaluation_id
    /\ obs.value.raised = ""
    /\ obs.value.value # VNull
    /\ ~obs.committed

\* C30: after a successful store_evaluation the artifacts agree with each other: the
\* SHA-256 of the bytes of input.json is the sha256 of the first manifest entry and the
\* input_sha256 of output.json and of metadata.json; the directory name is the first 16
\* characters of that digest; the trace_sha256 of metadata.json is the manifest's
\* digest of trace.json; the output_sha256 of output.json and metadata.json are equal
C30_ArtifactsAgree ==
    \A t \in Threads :
        (th[t].pc = "done" /\ th[t].status = 200) =>
            LET evaluation_id == th[t].result.evaluation_id
                digest   == compute_sha256(files[EvalPath(evaluation_id, "input.json")])
                output   == json_loads(files[EvalPath(evaluation_id, "output.json")])
                metadata == json_loads(files[EvalPath(evaluation_id, "metadata.json")])
                manifest == json_loads(files[ManifestPath(evaluation_id)])
                entries  == Item(manifest, "files").v
                trace    == CHOOSE i \in 1..Len(entries) :
                                Item(entries[i], "path") = S("trace.json")
            IN /\ Item(entries[1], "path") = S("input.json")
               /\ Item(entries[1], "sha256") = VStr(digest)
               /\ Item(output, "input_sha256") = VStr(digest)
               /\ Item(metadata, "input_sha256") = VStr(digest)
               /\ evaluation_id = Prefix(digest, 16)
               /\ evaluation_id \in dirs
               /\ Item(metadata, "trace_sha256") = Item(entries[trace], "sha256")
               /\ Item(entries[trace], "sha256")
                      = VStr(compute_sha256(files[EvalPath(evaluation_id, "trace.json")]))
               /\ Item(output, "output_sha256") = Item(metadata, "output_sha256")

\* a store has succeeded and left a manifest whose first entry carries a 64-character
\* digest
C30_Witness ==
    \E t \in Threads :
        /\ th[t].pc = "done" /\ th[t].status = 200
        /\ Committed(th[t].result.evaluation_id)
        /\ TextLen(Item(Item(json_loads(files[ManifestPath(th[t].result.evaluation_id)]),
                             "files").v[1], "sha256").v) = 64
====
